---- MODULE Spec2Model ----
(***************************************************************************)
(* Model of src/homework_grading_system.py: the HomeworkGradingSystem      *)
(* class (model selection, PDF/DOCX/image extraction, reference loading,   *)
(* the three analyze operations) and the grading handler of main().        *)
(*                                                                         *)
(* Python strings are sequences of one-character strings.  Python values   *)
(* that end up in result dictionaries are tagged records; a dictionary is  *)
(* a function from keys (strings) to values.                               *)
(***************************************************************************)
EXTENDS Integers, Sequences, FiniteSets, TLC

\* ------------------------------------------------------------------ bounds
MaxPages == 4        \* largest number of pages of an uploaded PDF
MaxTime  == 1        \* clock readings 1..MaxTime seen by datetime.now()

\* --------------------------------------------------------- Python strings
Rep(c, n) == [i \in 1..n |-> c]

Whitespace == {" ", "\n"}

Digits == <<"0", "1", "2", "3", "4", "5", "6", "7", "8", "9">>

IsDigit(c) == \E d \in 1..10 : Digits[d] = c

DigitVal(c) == (CHOOSE d \in 1..10 : Digits[d] = c) - 1

RECURSIVE IntToStr(_)
IntToStr(n) ==
  IF n < 10 THEN <<Digits[n + 1]>> ELSE IntToStr(n \div 10) \o <<Digits[(n % 10) + 1]>>

\* s[a:] with a >= 0
From(s, a) == IF a >= Len(s) THEN <<>> ELSE SubSeq(s, a + 1, Len(s))

\* s[:b] with b >= 0
Take(s, b) == IF b >= Len(s) THEN s ELSE SubSeq(s, 1, b)

\* s[a:-b] with a, b >= 0: Python drops the last b characters whatever they are
Slice(s, a, b) == IF a >= Len(s) - b THEN <<>> ELSE SubSeq(s, a + 1, Len(s) - b)

RECURSIVE LStrip(_)
LStrip(s) == IF s /= <<>> /\ s[1] \in Whitespace THEN LStrip(Tail(s)) ELSE s

RECURSIVE RStrip(_)
RStrip(s) ==
  IF s /= <<>> /\ s[Len(s)] \in Whitespace THEN RStrip(SubSeq(s, 1, Len(s) - 1)) ELSE s

\* str.strip()
Strip(s) == RStrip(LStrip(s))

\* str.startswith(p)
StartsWith(s, p) == Len(s) >= Len(p) /\ SubSeq(s, 1, Len(p)) = p

\* ---------------------------------------------------------- Python values
PyNone      == [t |-> "None"]
PyInt(n)    == [t |-> "int", n |-> n]
PyBool(b)   == [t |-> "bool", b |-> b]
PyStr(s)    == [t |-> "str", s |-> s]
PyList(e)   == [t |-> "list", e |-> e]
PyDict(m)   == [t |-> "dict", m |-> m]
\* an f-string made of a fixed prefix and the text of an exception
PyMsg(p, a) == [t |-> "fstr", prefix |-> p, arg |-> a]

EmptyDict == [k \in {} |-> PyNone]

\* d[k] = v
DictSet(d, k, v) == [x \in (DOMAIN d) \cup {k} |-> IF x = k THEN v ELSE d[x]]

\* ------------------------------------------------------------- json.loads
\* The subset of JSON read here: objects, arrays, strings without escapes,
\* integers, null, true, false, separated by spaces and newlines.  Anything
\* else is a JSONDecodeError.
JFail == [ok |-> FALSE]
JOk(v, p) == [ok |-> TRUE, v |-> v, p |-> p]

RECURSIVE SkipWs(_, _)
SkipWs(s, i) == IF i <= Len(s) /\ s[i] \in Whitespace THEN SkipWs(s, i + 1) ELSE i

\* the literal w at position i of s
HasWord(s, i, w) == i + Len(w) - 1 <= Len(s) /\ SubSeq(s, i, i + Len(w) - 1) = w

RECURSIVE ScanDigits(_, _, _)
ScanDigits(s, i, acc) ==
  IF i <= Len(s) /\ IsDigit(s[i]) THEN ScanDigits(s, i + 1, acc * 10 + DigitVal(s[i]))
  ELSE [n |-> acc, p |-> i]

\* s[i] is a digit: "0", or a non-zero digit followed by digits
ParseNat(s, i) == IF s[i] = "0" THEN [n |-> 0, p |-> i + 1] ELSE ScanDigits(s, i, 0)

ParseNumber(s, i) ==
  IF s[i] = "-"
  THEN IF i + 1 <= Len(s) /\ IsDigit(s[i + 1])
       THEN LET r == ParseNat(s, i + 1) IN JOk(PyInt(0 - r.n), r.p)
       ELSE JFail
  ELSE LET r == ParseNat(s, i) IN JOk(PyInt(r.n), r.p)

RECURSIVE ScanString(_, _, _)
\* s[i-1] opened the string with a quote
ScanString(s, i, acc) ==
  IF i > Len(s) THEN JFail
  ELSE IF s[i] = "\"" THEN JOk(PyStr(acc), i + 1)
  ELSE IF s[i] \in {"\\", "\n"} THEN JFail
  ELSE ScanString(s, i + 1, Append(acc, s[i]))

RECURSIVE ParseValue(_, _)
RECURSIVE ParseElements(_, _, _)
RECURSIVE ParseMembers(_, _, _)

\* after "[" or ",": the next element, then "," or "]"
ParseElements(s, i, acc) ==
  LET r == ParseValue(s, i) IN
  IF ~r.ok THEN JFail
  ELSE LET j == SkipWs(s, r.p) IN
       IF j > Len(s) THEN JFail
       ELSE IF s[j] = "," THEN ParseElements(s, j + 1, Append(acc, r.v))
       ELSE IF s[j] = "]" THEN JOk(PyList(Append(acc, r.v)), j + 1)
       ELSE JFail

\* after "{" or ",": "key" : value, then "," or "}"; a repeated key keeps the last
ParseMembers(s, i, acc) ==
  LET j == SkipWs(s, i) IN
  IF j > Len(s) \/ s[j] /= "\"" THEN JFail
  ELSE LET k == ScanString(s, j + 1, <<>>) IN
       IF ~k.ok THEN JFail
       ELSE LET c == SkipWs(s, k.p) IN
            IF c > Len(s) \/ s[c] /= ":" THEN JFail
            ELSE LET r == ParseValue(s, c + 1) IN
                 IF ~r.ok THEN JFail
                 ELSE LET e == SkipWs(s, r.p)
                          d == DictSet(acc, k.v.s, r.v) IN
                      IF e > Len(s) THEN JFail
                      ELSE IF s[e] = "," THEN ParseMembers(s, e + 1, d)
                      ELSE IF s[e] = "}" THEN JOk(PyDict(d), e + 1)
                      ELSE JFail

ParseValue(s, i) ==
  LET j == SkipWs(s, i) IN
  IF j > Len(s) THEN JFail
  ELSE IF s[j] = "{"
       THEN LET e == SkipWs(s, j + 1) IN
            IF e <= Len(s) /\ s[e] = "}" THEN JOk(PyDict(EmptyDict), e + 1)
            ELSE ParseMembers(s, j + 1, EmptyDict)
  ELSE IF s[j] = "["
       THEN LET e == SkipWs(s, j + 1) IN
            IF e <= Len(s) /\ s[e] = "]" THEN JOk(PyList(<<>>), e + 1)
            ELSE ParseElements(s, j + 1, <<>>)
  ELSE IF s[j] = "\"" THEN ScanString(s, j + 1, <<>>)
  ELSE IF s[j] = "-" \/ IsDigit(s[j]) THEN ParseNumber(s, j)
  ELSE IF HasWord(s, j, <<"n", "u", "l", "l">>) THEN JOk(PyNone, j + 4)
  ELSE IF HasWord(s, j, <<"t", "r", "u", "e">>) THEN JOk(PyBool(TRUE), j + 4)
  ELSE IF HasWord(s, j, <<"f", "a", "l", "s", "e">>) THEN JOk(PyBool(FALSE), j + 5)
  ELSE JFail

\* json.loads(s): [ok |-> TRUE, v |-> value], or [ok |-> FALSE] for JSONDecodeError
json_loads(s) ==
  LET r == ParseValue(s, 1) IN
  IF r.ok /\ SkipWs(s, r.p) > Len(s) THEN [ok |-> TRUE, v |-> r.v] ELSE [ok |-> FALSE]

\* ----------------------------------------------------------- uploaded files
\* text of a page as PyPDF2 extracts it
BlankPage == <<" ", "\n">>
Page24    == <<" ", " ">> \o Rep("x", 24)
Page25    == Rep("y", 25) \o <<"\n", " ">>
LongPage  == Rep("z", 51)

\* A PDF: the text of each page, and whether reading it fails.  bad = "reader":
\* PdfReader or extract_text raises; bad = "raster": convert_from_bytes raises;
\* exc is str(e) of that exception, which may be the empty string.
PdfFile(pages, bad) ==
  [kind |-> "pdf", pages |-> pages, bad |-> bad,
   exc |-> IF bad = "reader" THEN "EOF marker not found" ELSE ""]

PageSeqs(texts) == UNION {[1..n -> texts] : n \in 1..MaxPages}

\* PDFs of the grading session: n scanned pages, digital text, unreadable files
PdfFiles ==
  {PdfFile([i \in 1..n |-> BlankPage], "none") : n \in 1..MaxPages}
  \cup {PdfFile(<<LongPage>>, "none"), PdfFile(<<BlankPage, LongPage>>, "none"),
        PdfFile(<<BlankPage>>, "reader"), PdfFile(<<BlankPage>>, "raster"),
        PdfFile(<<LongPage>>, "raster")}

\* PDFs around the 50-character threshold
ThresholdPdfFiles ==
  {PdfFile(p, b) : p \in PageSeqs({BlankPage, Page24, Page25}), b \in {"none", "raster"}}

DocxFiles ==
  {[kind |-> "docx", paragraphs |-> p, bad |-> b, exc |-> IF b THEN "File is not a zip file" ELSE ""] :
     p \in {<<>>, <<Rep("a", 3), Rep("b", 2)>>}, b \in BOOLEAN}

TxtFiles == {[kind |-> "txt", text |-> t, bad |-> b] : t \in {<<>>, Rep("c", 4)}, b \in BOOLEAN}

ImageFiles ==
  {[kind |-> "image", pixels |-> Rep("#", 2), bad |-> b, exc |-> IF b THEN "cannot identify image file" ELSE ""] :
     b \in BOOLEAN}

\* ------------------------------------------------------ document extraction
PyImage(of, page) == [t |-> "image", of |-> of, page |-> page]

\* pdf2image.convert_from_bytes: one image per page, in page order
convert_from_bytes(pdf) == [i \in 1..Len(pdf.pages) |-> PyImage(pdf.pages, i)]

RECURSIVE JoinPages(_)
\* text += page_text + "\n" for every page
JoinPages(pages) ==
  IF pages = <<>> THEN <<>> ELSE Head(pages) \o <<"\n">> \o JoinPages(Tail(pages))

TextThreshold == 50

\* extract_pdf_content with "at least the threshold" in place of "more than"
extract_pdf_content_AtLeast(pdf) ==
  IF pdf.bad = "reader"
  THEN [type |-> "error", content |-> PyMsg("", pdf.exc),
        shown |-> <<PyMsg("Error processing PDF: ", pdf.exc)>>]
  ELSE LET text == JoinPages(pdf.pages) IN
       IF Len(Strip(text)) >= TextThreshold
       THEN [type |-> "text", content |-> PyStr(text), shown |-> <<>>]
       ELSE IF pdf.bad = "raster"
            THEN [type |-> "error", content |-> PyMsg("", pdf.exc),
                  shown |-> <<PyMsg("Error processing PDF: ", pdf.exc)>>]
            ELSE [type |-> "images", content |-> PyList(convert_from_bytes(pdf)),
                  shown |-> <<>>]

\* extract_pdf_content: the returned dict and the st.error messages it shows
extract_pdf_content(pdf) ==
  IF pdf.bad = "reader"
  THEN [type |-> "error", content |-> PyMsg("", pdf.exc),
        shown |-> <<PyMsg("Error processing PDF: ", pdf.exc)>>]
  ELSE LET text == JoinPages(pdf.pages) IN
       IF Len(Strip(text)) > TextThreshold
       THEN [type |-> "text", content |-> PyStr(text), shown |-> <<>>]
       ELSE IF pdf.bad = "raster"
            THEN [type |-> "error", content |-> PyMsg("", pdf.exc),
                  shown |-> <<PyMsg("Error processing PDF: ", pdf.exc)>>]
            ELSE [type |-> "images", content |-> PyList(convert_from_bytes(pdf)),
                  shown |-> <<>>]

\* stand-ins for the Hebrew words around the page count in the reference summary
SummaryHead == <<"r", "e", "f", " ">>
SummaryTail == <<" ", "p", "a", "g", "e", "s">>
PlaceholderHead == <<"[", "H", "W", " ">>
PlaceholderTail == <<" ", "p", "a", "g", "e", "s", "]">>

\* extract_pdf_text: the returned string and the messages shown
extract_pdf_text(pdf) ==
  LET r == extract_pdf_content(pdf) IN
  [value |-> IF r.type = "text" THEN r.content
             ELSE IF r.type = "images"
                  THEN PyStr(PlaceholderHead \o IntToStr(Len(r.content.e)) \o PlaceholderTail)
                  ELSE PyStr(<<>>),
   shown |-> r.shown]

\* extract_docx_text returning a placeholder text for an unreadable file
extract_docx_text_Placeholder(f) ==
  IF f.bad
  THEN [value |-> PyStr(<<"[", "D", "O", "C", "X", "]">>),
        shown |-> <<PyMsg("Error reading DOCX: ", f.exc)>>]
  ELSE [value |-> PyStr(JoinPages(f.paragraphs)), shown |-> <<>>]

\* extract_docx_text
extract_docx_text(f) ==
  IF f.bad
  THEN [value |-> PyStr(<<>>), shown |-> <<PyMsg("Error reading DOCX: ", f.exc)>>]
  ELSE [value |-> PyStr(JoinPages(f.paragraphs)), shown |-> <<>>]

\* process_image
process_image(f) ==
  IF f.bad
  THEN [value |-> PyNone, shown |-> <<PyMsg("Error processing image: ", f.exc)>>]
  ELSE [value |-> PyImage(<<f.pixels>>, 1), shown |-> <<>>]

\* Python truth value of the values handled here
Truthy(v) ==
  CASE v.t = "None" -> FALSE
    [] v.t = "str"  -> v.s /= <<>>
    [] v.t = "list" -> v.e /= <<>>
    [] v.t = "dict" -> DOMAIN v.m /= {}
    [] v.t = "int"  -> v.n /= 0
    [] v.t = "bool" -> v.b
    [] OTHER        -> TRUE

\* --------------------------------------------------------------------- state
VARIABLES
  pc,                 \* "init": in the model loop; "loop_done"; "ready"; "failed"
  next,               \* index in model_names of the next candidate to try
  model,              \* self.model: 0 for None, else the index of its model name
  vision_model,       \* self.vision_model, likewise
  model_name,         \* self.model_name: 0 while unset
  tried,              \* per candidate: "Untried", "Failed", "Succeeded"
  reference_content,  \* self.reference_content
  reference_images,   \* self.reference_images
  reference_type,     \* self.reference_type
  op,                 \* the last operation and its inputs
  shown,              \* st.error messages shown by the last operation
  request,            \* what the last operation sent to generate_content
  result              \* what the last operation returned

vars == <<pc, next, model, vision_model, model_name, tried, reference_content,
          reference_images, reference_type, op, shown, request, result>>

init_vars == <<pc, next, model, vision_model, model_name, tried>>
ref_vars  == <<reference_content, reference_images, reference_type>>

NumCandidates == 4
model_names == <<"gemini-2.0-flash-exp", "gemini-1.5-flash", "gemini-1.5-pro", "gemini-pro">>

NoRequest == [t |-> "no request"]
NoResult  == [t |-> "no result"]
NoOp      == [name |-> "none"]

\* ---------------------------------------------------------------- __init__
\* the state on entry to the model loop
InitCtor ==
  /\ pc = "init"
  /\ next = 1
  /\ model = 0
  /\ vision_model = 0
  /\ model_name = 0
  /\ tried = [i \in 1..NumCandidates |-> "Untried"]
  /\ reference_content = <<>>
  /\ reference_images = <<>>
  /\ reference_type = "none"
  /\ op = NoOp
  /\ shown = <<>>
  /\ request = NoRequest
  /\ result = NoResult

\* How one pass of the loop body ends: "ctor": GenerativeModel raises at the
\* first construction; "ctor_vision": at the second; "test": the test request
\* raises; "ok": the test request answers and the loop breaks.
CandidateOutcomes == {"ctor", "ctor_vision", "test", "ok"}

\* the assignment at the first construction has happened
AssignsModel(out) == out /= "ctor"

InitTry(out) ==
  /\ pc = "init"
  /\ next <= NumCandidates
  /\ model' = IF AssignsModel(out) THEN next ELSE model
  /\ vision_model' = IF out \in {"test", "ok"} THEN next ELSE vision_model
  /\ model_name' = IF out \in {"test", "ok"} THEN next ELSE model_name
  /\ tried' = [tried EXCEPT ![next] = IF out = "ok" THEN "Succeeded" ELSE "Failed"]
  /\ next' = next + 1
  /\ pc' = IF out = "ok" \/ next = NumCandidates THEN "loop_done" ELSE "init"
  /\ UNCHANGED <<ref_vars, op, shown, request, result>>

\* after the loop: raise when self.model is None, else set the reference fields
InitFinish ==
  /\ pc = "loop_done"
  /\ pc' = IF model = 0 THEN "failed" ELSE "ready"
  /\ reference_content' = <<>>
  /\ reference_images' = <<>>
  /\ reference_type' = "none"
  /\ UNCHANGED <<next, model, vision_model, model_name, tried, op, shown, request, result>>

\* --------------------------------------------------- load_reference_material
NoFile == [kind |-> "none"]

SummaryOf(n) == SummaryHead \o IntToStr(n) \o SummaryTail

LoadReferenceMaterial(reference_file) ==
  /\ pc = "ready"
  /\ LET r == IF reference_file = NoFile THEN [type |-> "skipped", shown |-> <<>>]
              ELSE extract_pdf_content(reference_file) IN
     /\ reference_content' =
          IF r.type = "text" THEN r.content.s
          ELSE IF r.type = "images" THEN SummaryOf(Len(r.content.e))
          ELSE reference_content
     /\ reference_images' = IF r.type = "images" THEN r.content.e ELSE reference_images
     /\ reference_type' =
          IF r.type \in {"text", "images"} THEN r.type ELSE reference_type
     /\ op' = [name |-> "load_reference_material", file |-> reference_file,
               extracted |-> r.type]
     /\ shown' = r.shown
     /\ request' = NoRequest
     /\ result' = PyBool(r.type \in {"text", "images"})
  /\ UNCHANGED init_vars

\* ------------------------------------------------------------ dictionary keys
K_score        == <<"s", "c", "o", "r", "e">>
K_error        == <<"e", "r", "r", "o", "r">>
K_timestamp    == <<"t", "i", "m", "e", "s", "t", "a", "m", "p">>
K_student_name == <<"s", "t", "u", "d", "e", "n", "t", "_", "n", "a", "m", "e">>
K_raw_feedback == <<"r", "a", "w", "_", "f", "e", "e", "d", "b", "a", "c", "k">>
K_feedback     == <<"f", "e", "e", "d", "b", "a", "c", "k">>
K_note         == <<"n", "o", "t", "e">>
K_type         == <<"t", "y", "p", "e">>
K_analysis     == <<"a", "n", "a", "l", "y", "s", "i", "s", "_", "t", "y", "p", "e">>
K_comment      == <<"c", "o", "m", "m", "e", "n", "t">>

\* ------------------------------------------------- replies of the model service
Quoted(s) == <<"\"">> \o s \o <<"\"">>
Member(k, v) == Quoted(k) \o <<":", " ">> \o v
\* the fence character; a TLA+ string cannot hold a backquote, an apostrophe
\* stands for it
Tick       == "'"
Fence      == <<Tick, Tick, Tick>>
JsonFence  == Fence \o <<"j", "s", "o", "n">>

J92       == <<"{">> \o Member(K_score, <<"9", "2">>) \o <<",", " ">>
                     \o Member(K_comment, Quoted(<<"o", "k">>)) \o <<"}">>
J150      == <<"{">> \o Member(K_score, <<"1", "5", "0">>) \o <<"}">>
JNeg      == <<"{">> \o Member(K_score, <<"-", "5">>) \o <<"}">>
JNoScore  == <<"{">> \o Member(K_comment, Quoted(<<"o", "k">>)) \o <<"}">>
JStrScore == <<"{">> \o Member(K_score, Quoted(<<"h", "i", "g", "h">>)) \o <<"}">>
JList     == <<"[", "9", "2", "]">>
JNumber   == <<"9", "2">>
JError    == <<"{">> \o Member(K_error, Quoted(<<"b", "l", "u", "r">>)) \o <<",", " ">>
                     \o Member(K_score, <<"4", "0">>) \o <<"}">>
Fenced92   == JsonFence \o <<"\n">> \o J92 \o <<"\n">> \o Fence
Untagged92 == Fence \o <<"\n">> \o J92 \o <<"\n">> \o Fence \o <<"\n">>
LeadOnly92 == JsonFence \o <<"\n">> \o J92
\* free text with a score pattern, and without one
TextScore  == <<"S", "c", "o", "r", "e", ":", " ", "8", "7", "/", "1", "0", "0">>
TextPlain  == <<"g", "o", "o", "d", " ", "w", "o", "r", "k">>

JsonReplies == {J92, J150, JNeg, JNoScore, JStrScore, JList, JNumber, JError}
FencedReplies == {Fenced92, Untagged92, LeadOnly92}
TextReplies == {TextScore, TextPlain}
Replies == JsonReplies \cup FencedReplies \cup TextReplies

\* generate_content: a reply, or an exception with its text
ServiceError == [ok |-> FALSE, exc |-> "503 unavailable"]
ClientOutcomes == {[ok |-> TRUE, text |-> r] : r \in Replies} \cup {ServiceError}

\* the outcomes tried on the operations that never parse the reply
VisionOutcomes == {[ok |-> TRUE, text |-> r] : r \in {J92, TextScore, TextPlain}} \cup {ServiceError}

Times == 1..MaxTime

\* datetime.datetime.now().isoformat()
isoformat(now) == <<"T">> \o IntToStr(now)

\* --------------------------------------------------------- response handling
\* self._extract_score_from_text(text): the class defines no such method, so the
\* attribute lookup raises AttributeError before any text is scanned
_extract_score_from_text(text) ==
  [raised |-> TRUE,
   exc |-> "'HomeworkGradingSystem' object has no attribute '_extract_score_from_text'"]

\* the cleaning of response.text before json.loads
CleanResponse(text) ==
  LET response_text == Strip(text) IN
  IF StartsWith(response_text, JsonFence) THEN Strip(Slice(response_text, 7, 3))
  ELSE IF StartsWith(response_text, Fence) THEN Strip(Slice(response_text, 3, 3))
  ELSE response_text

ErrorDict(msg) == PyDict(DictSet(EmptyDict, K_error, msg))

\* result["timestamp"] = ...; result["student_name"] = ...
Stamp(d, now, student_name) ==
  DictSet(DictSet(d, K_timestamp, PyStr(isoformat(now))), K_student_name, PyStr(student_name))

\* json.loads of the cleaned text, tabulated over the replies
LoadsOfReply == [text \in Replies |-> json_loads(CleanResponse(text))]

\* The body of the try block of analyze_homework_text once response is there.
\* site names the return statement taken.
ParseResponse(text, student_name, now) ==
  LET parsed == LoadsOfReply[text] IN
  IF parsed.ok
  THEN IF parsed.v.t = "dict"
       THEN [site |-> "json", ret |-> PyDict(Stamp(parsed.v.m, now, student_name))]
       \* item assignment on a list, number, string or None raises TypeError
       ELSE [site |-> "except",
             ret |-> ErrorDict(PyMsg("Error analyzing homework: ",
                                     "object does not support item assignment"))]
  ELSE LET score == _extract_score_from_text(text) IN
       IF score.raised
       THEN [site |-> "except",
             ret |-> ErrorDict(PyMsg("Error analyzing homework: ", score.exc))]
       ELSE [site |-> "freetext",
             ret |-> PyDict(Stamp(DictSet(DictSet(DictSet(EmptyDict,
                        K_score, score.value),
                        K_raw_feedback, PyStr(text)),
                        K_note, PyMsg("Response parsed from natural language", "")),
                      now, student_name))]

\* ------------------------------------------------------------------- prompts
ReferenceLimitText  == 4000
ReferenceLimitImage == 3000
MaxReferenceImages  == 3

Prompt(template, reference, student_name, content) ==
  [t |-> "prompt", template |-> template, reference |-> reference,
   student_name |-> student_name, content |-> content]

\* f"...: {homework_content}" appended after the reference images
HomeworkPart(text) == [t |-> "labelled", s |-> text]

\* ------------------------------------------------------- analyze operations
\* Each yields the request sent (or NoRequest), the returned dict and the
\* return statement taken.  ref, images: the reference fields of self.
analyze_homework_text(ref, homework_text, student_name, outcome, now) ==
  IF ref = <<>>
  THEN [request |-> NoRequest, site |-> "guard",
        ret |-> ErrorDict(PyMsg("Reference material not loaded", ""))]
  ELSE LET prompt == Prompt("text", Take(ref, ReferenceLimitText), student_name, homework_text)
           r == IF outcome.ok THEN ParseResponse(outcome.text, student_name, now)
                ELSE [site |-> "except",
                      ret |-> ErrorDict(PyMsg("Error analyzing homework: ", outcome.exc))]
       IN [request |-> prompt, site |-> r.site, ret |-> r.ret]

\* the score extraction and result dict shared by the two free-text operations
FreeTextResult(text, student_name, now, tagKey, tag, prefix) ==
  LET score == _extract_score_from_text(text) IN
  IF score.raised
  THEN [site |-> "except", ret |-> ErrorDict(PyMsg(prefix, score.exc))]
  ELSE [site |-> "freetext",
        ret |-> PyDict(DictSet(DictSet(DictSet(DictSet(DictSet(EmptyDict,
                   K_score, score.value),
                   K_feedback, PyStr(text)),
                   K_timestamp, PyStr(isoformat(now))),
                   K_student_name, PyStr(student_name)),
                   tagKey, PyMsg(tag, "")))]

analyze_homework_with_reference_images(images, homework_content, student_name, outcome, now) ==
  LET prompt == Prompt("reference images", <<>>, student_name, homework_content)
      content_list ==
        <<prompt>> \o Take(images, MaxReferenceImages)
          \o (IF homework_content.t = "str" THEN <<HomeworkPart(homework_content.s)>>
              ELSE IF homework_content.t = "image" THEN <<homework_content>>
              ELSE <<>>)
      r == IF outcome.ok
           THEN FreeTextResult(outcome.text, student_name, now, K_analysis,
                               "handwritten_reference_comparison",
                               "Error analyzing with reference images: ")
           ELSE [site |-> "except",
                 ret |-> ErrorDict(PyMsg("Error analyzing with reference images: ",
                                         outcome.exc))]
  IN [request |-> PyList(content_list), site |-> r.site, ret |-> r.ret]

analyze_homework_image(ref, image, student_name, outcome, now) ==
  IF ref = <<>>
  THEN [request |-> NoRequest, site |-> "guard",
        ret |-> ErrorDict(PyMsg("Reference material not loaded", ""))]
  ELSE LET prompt == Prompt("image", Take(ref, ReferenceLimitImage), student_name, PyNone)
           r == IF outcome.ok
                THEN FreeTextResult(outcome.text, student_name, now, K_type,
                                    "image_analysis", "Error analyzing image: ")
                ELSE [site |-> "except",
                      ret |-> ErrorDict(PyMsg("Error analyzing image: ", outcome.exc))]
       IN [request |-> PyList(<<prompt, image>>), site |-> r.site, ret |-> r.ret]

\* --------------------------------------------------------------- inputs
Dana      == <<"D", "a", "n", "a">>
Anonymous == <<"A", "n", "o", "n", "y", "m", "o", "u", "s">>

TypedTexts == {<<>>, <<"2", "+", "2", "=", "4">>}

\* homework PDFs: two scanned pages, digital text, unreadable files
HomeworkPdfFiles ==
  {PdfFile(<<BlankPage, BlankPage>>, "none"), PdfFile(<<LongPage>>, "none"),
   PdfFile(<<BlankPage>>, "reader"), PdfFile(<<BlankPage>>, "raster")}

\* what the operator has put in the upload widgets of main()
Uploads ==
  {[method |-> "Text File", file |-> f] :
     f \in HomeworkPdfFiles \cup DocxFiles \cup TxtFiles \cup {NoFile}}
  \cup {[method |-> "Image", file |-> f] : f \in ImageFiles \cup {NoFile}}
  \cup {[method |-> "Direct Text Input", text |-> t] : t \in TypedTexts}

\* arguments of direct calls of the analyze methods
ApiText     == PyStr(<<"2", "+", "2", "=", "4">>)
ApiImage    == PyImage(<<Rep("#", 2)>>, 1)
ApiContents == {ApiText, ApiImage, PyNone}

\* ------------------------------------------------------ main(): the upload part
\* homework_content after the upload section of main(), the messages shown,
\* whether the section raised (an undecodable .txt), whether extraction failed
MainExtract(u) ==
  IF u.method = "Direct Text Input"
  THEN [value |-> PyStr(u.text), shown |-> <<>>, raised |-> FALSE, failed |-> FALSE]
  ELSE IF u.file = NoFile
  THEN [value |-> PyNone, shown |-> <<>>, raised |-> FALSE, failed |-> FALSE]
  ELSE IF u.method = "Image"
  THEN LET r == process_image(u.file) IN
       [value |-> r.value, shown |-> r.shown, raised |-> FALSE, failed |-> u.file.bad]
  ELSE IF u.file.kind = "pdf"
  THEN LET r == extract_pdf_text(u.file) IN
       [value |-> r.value, shown |-> r.shown, raised |-> FALSE,
        failed |-> extract_pdf_content(u.file).type = "error"]
  ELSE IF u.file.kind = "docx"
  THEN LET r == extract_docx_text(u.file) IN
       [value |-> r.value, shown |-> r.shown, raised |-> FALSE, failed |-> u.file.bad]
  ELSE IF u.file.bad
  THEN [value |-> PyNone, shown |-> <<>>, raised |-> TRUE, failed |-> TRUE]
  ELSE [value |-> PyStr(u.file.text), shown |-> <<>>, raised |-> FALSE, failed |-> FALSE]

\* the grading branch of main() is reached and calls an analyze method
MainCalls(x, student_name, pressed) ==
  ~x.raised /\ pressed /\ Truthy(x.value) /\ student_name /= <<>>

\* the analyze method main() picks
MainAnalyze(u, x, student_name, outcome, now) ==
  IF u.method = "Image"
  THEN analyze_homework_image(reference_content, x.value, student_name, outcome, now)
  ELSE analyze_homework_text(reference_content, x.value, student_name, outcome, now)

\* One run of main() past the reference section: upload, extraction and, when
\* the button is pressed, grading.
MainGrade(u, student_name, pressed) ==
  /\ pc = "ready"
  /\ reference_content /= <<>>
  /\ LET x == MainExtract(u) IN
     IF MainCalls(x, student_name, pressed)
     THEN \E outcome \in (IF u.method = "Image" THEN VisionOutcomes ELSE ClientOutcomes),
             now \in Times :
            LET a == MainAnalyze(u, x, student_name, outcome, now) IN
            /\ op' = [name |-> "main", upload |-> u, student_name |-> student_name,
                      pressed |-> pressed, homework_content |-> x.value,
                      raised |-> x.raised, failed |-> x.failed, called |-> TRUE,
                      fn |-> IF u.method = "Image" THEN "analyze_homework_image"
                             ELSE "analyze_homework_text",
                      outcome |-> outcome, now |-> now, site |-> a.site]
            /\ request' = a.request
            /\ result' = a.ret
            /\ shown' = IF K_error \in DOMAIN a.ret.m
                        THEN Append(x.shown, PyMsg("Error: ", "result['error']"))
                        ELSE x.shown
     ELSE /\ op' = [name |-> "main", upload |-> u, student_name |-> student_name,
                    pressed |-> pressed, homework_content |-> x.value,
                    raised |-> x.raised, failed |-> x.failed, called |-> FALSE]
          /\ request' = NoRequest
          /\ result' = NoResult
          /\ shown' = IF x.raised \/ ~pressed THEN x.shown
                      ELSE IF ~Truthy(x.value)
                      THEN Append(x.shown, PyMsg("Please provide homework content to grade", ""))
                      ELSE Append(x.shown, PyMsg("Please enter student name", ""))
  /\ UNCHANGED <<init_vars, ref_vars>>

\* ------------------------------------------- direct calls of the analyze methods
\* an analyze call that cuts self.reference_images down to the images it sends
ApiCall_TrimsReference(fn, content, student_name, outcome, now, a) ==
  /\ op' = [name |-> "api", student_name |-> student_name, homework_content |-> content,
            called |-> TRUE, fn |-> fn, outcome |-> outcome, now |-> now, site |-> a.site]
  /\ request' = a.request
  /\ result' = a.ret
  /\ shown' = <<>>
  /\ reference_images' = Take(reference_images, MaxReferenceImages)
  /\ UNCHANGED <<init_vars, reference_content, reference_type>>

ApiCall(fn, content, student_name, outcome, now, a) ==
  /\ op' = [name |-> "api", student_name |-> student_name, homework_content |-> content,
            called |-> TRUE, fn |-> fn, outcome |-> outcome, now |-> now, site |-> a.site]
  /\ request' = a.request
  /\ result' = a.ret
  /\ shown' = <<>>
  /\ UNCHANGED <<init_vars, ref_vars>>

AnalyzeHomeworkText(content, student_name, outcome, now) ==
  /\ pc = "ready"
  /\ ApiCall("analyze_homework_text", content, student_name, outcome, now,
             analyze_homework_text(reference_content, content, student_name, outcome, now))

AnalyzeHomeworkImage(content, student_name, outcome, now) ==
  /\ pc = "ready"
  /\ ApiCall("analyze_homework_image", content, student_name, outcome, now,
             analyze_homework_image(reference_content, content, student_name, outcome, now))

AnalyzeHomeworkWithReferenceImages(content, student_name, outcome, now) ==
  /\ pc = "ready"
  /\ ApiCall("analyze_homework_with_reference_images", content, student_name, outcome, now,
             analyze_homework_with_reference_images(reference_images, content,
                                                    student_name, outcome, now))

\* a direct call of extract_pdf_text, the extractor main() uses for homework
ExtractPdfText(pdf_file) ==
  /\ pc = "ready"
  /\ LET r == extract_pdf_text(pdf_file) IN
     /\ op' = [name |-> "extract_pdf_text", file |-> pdf_file,
               extracted |-> extract_pdf_content(pdf_file).type]
     /\ shown' = r.shown
     /\ result' = r.value
  /\ request' = NoRequest
  /\ UNCHANGED <<init_vars, ref_vars>>

\* ------------------------------------------------------------ specifications
\* The session of one grader: the state __init__ leaves when the first
\* candidate answers its test request.
Init ==
  /\ pc = "ready"
  /\ next = 2
  /\ model = 1
  /\ vision_model = 1
  /\ model_name = 1
  /\ tried = [i \in 1..NumCandidates |-> IF i = 1 THEN "Succeeded" ELSE "Untried"]
  /\ reference_content = <<>>
  /\ reference_images = <<>>
  /\ reference_type = "none"
  /\ op = NoOp
  /\ shown = <<>>
  /\ request = NoRequest
  /\ result = NoResult

Next ==
  \/ \E f \in PdfFiles \cup {NoFile} : LoadReferenceMaterial(f)
  \/ \E u \in Uploads, n \in {<<>>, Dana}, pressed \in BOOLEAN : MainGrade(u, n, pressed)
  \/ \E o \in ClientOutcomes, now \in Times : AnalyzeHomeworkText(ApiText, Anonymous, o, now)
  \/ \E o \in VisionOutcomes, now \in Times : AnalyzeHomeworkImage(ApiImage, Anonymous, o, now)
  \/ \E c \in ApiContents, o \in VisionOutcomes, now \in Times :
       AnalyzeHomeworkWithReferenceImages(c, Anonymous, o, now)

Spec == Init /\ [][Next]_vars

\* Construction of the grader, followed by reference uploads.
NextCtor ==
  \/ \E out \in CandidateOutcomes : InitTry(out)
  \/ InitFinish
  \/ \E f \in PdfFiles \cup {NoFile} : LoadReferenceMaterial(f)

SpecCtor == InitCtor /\ [][NextCtor]_vars

\* The PDF extractor on its own: one upload, as reference or as homework, of
\* a PDF around the text threshold.
NextExtract ==
  \/ \E f \in ThresholdPdfFiles : op = NoOp /\ LoadReferenceMaterial(f)
  \/ \E f \in ThresholdPdfFiles : op = NoOp /\ ExtractPdfText(f)

SpecExtract == Init /\ [][NextExtract]_vars

\* ------------------------------------------------------------------ claims
\* the last operation called an analyze method
Called == op.name \in {"main", "api"} /\ op.called

\* ... and that method obtained a reply from the service
GotReply == Called /\ request /= NoRequest /\ op.outcome.ok

\* the last operation built its result from the reply without parsing it
FreeTextPath ==
  op.fn \in {"analyze_homework_image", "analyze_homework_with_reference_images"}

HasKey(d, k) == d.t = "dict" /\ k \in DOMAIN d.m

Clamp(n) == IF n < 0 THEN 0 ELSE IF n > 100 THEN 100 ELSE n

\* The heuristic score scan as the specification words it: the first "N/100"
\* or "Score: N" in the text, clamped to [0,100], else None.
SlashAt(s, i) ==
  /\ IsDigit(s[i])
  /\ (i = 1 \/ ~IsDigit(s[i - 1]))
  /\ HasWord(s, ScanDigits(s, i, 0).p, <<"/", "1", "0", "0">>)

LabelAt(s, i) ==
  /\ HasWord(s, i, <<"S", "c", "o", "r", "e", ":">>)
  /\ SkipWs(s, i + 6) <= Len(s)
  /\ IsDigit(s[SkipWs(s, i + 6)])

ExpectedScore(s) ==
  LET hits == {i \in 1..Len(s) : SlashAt(s, i) \/ LabelAt(s, i)} IN
  IF hits = {} THEN PyNone
  ELSE LET i == CHOOSE h \in hits : \A g \in hits : h <= g
           d == IF LabelAt(s, i) THEN SkipWs(s, i + 6) ELSE i
       IN PyInt(Clamp(ScanDigits(s, d, 0).n))

\* the feedback field of a free-text result
FeedbackKey == IF op.fn = "analyze_homework_text" THEN K_raw_feedback ELSE K_feedback

\* C1: whenever the reply obtained from the service cannot be parsed as JSON
\* (and on the operations that never parse it), the result is not an error
\* result, keeps the whole reply as feedback, and its score is what the
\* heuristic scan finds in the reply, or None.
C1_ParseFailureIsNotAnError ==
  (GotReply /\ (FreeTextPath \/ ~json_loads(CleanResponse(op.outcome.text)).ok))
    => /\ ~HasKey(result, K_error)
       /\ HasKey(result, FeedbackKey)
       /\ result.m[FeedbackKey] = PyStr(op.outcome.text)
       /\ HasKey(result, K_score)
       /\ result.m[K_score] = ExpectedScore(op.outcome.text)

\* C2: a score present in the result of an analyze operation lies in [0,100].
C2_ScoreWithinRange ==
  (Called /\ HasKey(result, K_score) /\ result.m[K_score].t = "int")
    => (0 <= result.m[K_score].n /\ result.m[K_score].n <= 100)

\* the reply parses as JSON
ReplyParses == json_loads(CleanResponse(op.outcome.text)).ok

ReplyValue == json_loads(CleanResponse(op.outcome.text)).v

\* C3: a reply that parses as JSON but is no object, or has no numeric score,
\* is not returned as a structured result: the result comes from the
\* free-text return and is not an error result.
C3_NoScoreFallsThrough ==
  (GotReply /\ op.fn = "analyze_homework_text" /\ ReplyParses
     /\ ~(HasKey(ReplyValue, K_score) /\ ReplyValue.m[K_score].t = "int"))
    => (op.site = "freetext" /\ ~HasKey(result, K_error))

\* Fence removal as the specification words it: a leading fence, tagged or
\* not, and a trailing fence, each removed only when it is there.
DropLeadingFence(s) ==
  IF StartsWith(s, JsonFence) THEN From(s, Len(JsonFence))
  ELSE IF StartsWith(s, Fence) THEN From(s, Len(Fence))
  ELSE s

DropTrailingFence(s) ==
  IF Len(s) >= 3 /\ SubSeq(s, Len(s) - 2, Len(s)) = Fence THEN Take(s, Len(s) - 3) ELSE s

Payload(text) == Strip(DropTrailingFence(DropLeadingFence(Strip(text))))

\* C4: for a reply that is a JSON object with a numeric score, bare, fenced, or
\* with a leading fence only, the result is that object, every field of it,
\* with the timestamp and the caller's student name added.
C4_FencedObjectReachesResult ==
  (GotReply /\ op.fn = "analyze_homework_text"
     /\ json_loads(Payload(op.outcome.text)).ok
     /\ HasKey(json_loads(Payload(op.outcome.text)).v, K_score)
     /\ json_loads(Payload(op.outcome.text)).v.m[K_score].t = "int")
    => /\ result.t = "dict"
       /\ \A k \in DOMAIN json_loads(Payload(op.outcome.text)).v.m :
            k \notin {K_timestamp, K_student_name}
              => HasKey(result, k)
                 /\ result.m[k] = json_loads(Payload(op.outcome.text)).v.m[k]
       /\ HasKey(result, K_timestamp) /\ result.m[K_timestamp] = PyStr(isoformat(op.now))
       /\ HasKey(result, K_student_name)
       /\ result.m[K_student_name] = PyStr(op.student_name)

\* the result came from a return statement that reports an error
IsErrorResult == op.site \in {"guard", "except"}

\* C5: a result carries an error message exactly when it is an error result,
\* an error result has no score, a failure of the service call gives an error
\* result, and no result built from a reply has an error message and a score.
C5_ErrorIffErrorResult ==
  Called =>
    /\ HasKey(result, K_error) <=> IsErrorResult
    /\ IsErrorResult => ~HasKey(result, K_score)
    /\ (request /= NoRequest /\ ~op.outcome.ok)
         => (IsErrorResult /\ HasKey(result, K_error) /\ ~HasKey(result, K_score))
    /\ GotReply => ~(HasKey(result, K_error) /\ HasKey(result, K_score))

\* the length of s between its first and its last character that is not whitespace
TrimmedLength(s) ==
  LET solid == {i \in 1..Len(s) : s[i] \notin Whitespace} IN
  IF solid = {} THEN 0
  ELSE (CHOOSE i \in solid : \A j \in solid : j <= i)
       - (CHOOSE i \in solid : \A j \in solid : i <= j) + 1

\* the last operation ran the PDF extractor on an uploaded file
ExtractedPdf ==
  op.name \in {"load_reference_material", "extract_pdf_text"} /\ op.file /= NoFile

UploadedLength == TrimmedLength(JoinPages(op.file.pages))

\* C6: with L the trimmed length of the text of all pages, a PDF with L > 50 is
\* taken as text and one with L <= 50 as images, one image per page, unless
\* rasterizing it fails; reference uploads and homework uploads alike.
C6_PdfClassifiedByTextLength ==
  ExtractedPdf =>
    /\ UploadedLength > 50 => op.extracted = "text"
    /\ (UploadedLength <= 50 /\ op.file.bad = "none") => op.extracted = "images"
    /\ op.extracted = "error" => op.file.bad /= "none"
    /\ op.name = "load_reference_material" =>
         /\ op.extracted = "text" =>
              (reference_type = "text" /\ reference_content = JoinPages(op.file.pages))
         /\ op.extracted = "images" =>
              /\ reference_type = "images"
              /\ Len(reference_images) = Len(op.file.pages)
              /\ \A i \in 1..Len(op.file.pages) :
                   reference_images[i] = PyImage(op.file.pages, i)
    /\ op.name = "extract_pdf_text" =>
         /\ op.extracted = "text" => result = PyStr(JoinPages(op.file.pages))
         /\ op.extracted = "images" =>
              result = PyStr(PlaceholderHead \o IntToStr(Len(op.file.pages)) \o PlaceholderTail)

\* C6 witness: a reference PDF of several pages whose text is exactly 50
\* characters long has been loaded as images.
C6_Witness ==
  /\ ExtractedPdf
  /\ op.name = "load_reference_material"
  /\ UploadedLength = 50
  /\ Len(op.file.pages) >= 2
  /\ reference_type = "images"

\* the last run of main() had a PDF, DOCX or image upload whose extraction failed
HomeworkExtractionFailed ==
  /\ op.name = "main"
  /\ op.upload.method /= "Direct Text Input"
  /\ op.upload.file /= NoFile
  /\ op.upload.file.kind \in {"pdf", "docx", "image"}
  /\ op.failed

\* C7: when extraction of an uploaded PDF, DOCX or image fails, the extractor
\* does not raise, a non-empty message is shown, and that run of main() sends
\* no request to the service.
C7_FailedExtractionSendsNothing ==
  HomeworkExtractionFailed =>
    /\ ~op.raised
    /\ Len(shown) >= 1
    /\ shown[1].prefix \in {"Error processing PDF: ", "Error reading DOCX: ",
                           "Error processing image: "}
    /\ ~Truthy(op.homework_content)
    /\ ~op.called
    /\ request = NoRequest
    /\ result = NoResult

\* C7 witness: a corrupted DOCX was uploaded, a student name entered and the
\* grade button pressed.
C7_Witness ==
  /\ HomeworkExtractionFailed
  /\ op.upload.file.kind = "docx"
  /\ op.pressed
  /\ op.student_name /= <<>>

\* the last part of an image-reference request: the homework text or image
HomeworkOf(content) == IF content.t = "str" THEN HomeworkPart(content.s) ELSE content

\* C8: a grading action of main() with an image reference sends the list made
\* of the instruction text, the first min(3, n) reference images in order, and
\* the homework content.
C8_ImageReferenceRequest ==
  (op.name = "main" /\ op.called /\ reference_type = "images") =>
    LET k == IF Len(reference_images) < 3 THEN Len(reference_images) ELSE 3 IN
    /\ request.t = "list"
    /\ Len(request.e) = k + 2
    /\ request.e[1].t = "prompt"
    /\ \A i \in 1..k : request.e[i + 1] = reference_images[i]
    /\ request.e[k + 2] = HomeworkOf(op.homework_content)

C10_FirstRespondingModelOrFailure ==
  /\ \A k \in 1..NumCandidates :
       tried[k] = "Succeeded" =>
         /\ model = k /\ vision_model = k /\ model_name = k
         /\ \A j \in 1..NumCandidates :
              /\ j < k => tried[j] = "Failed"
              /\ j > k => tried[j] = "Untried"
  /\ pc \in {"ready", "failed"} =>
       ((\E k \in 1..NumCandidates : tried[k] = "Succeeded") <=> pc = "ready")

\* the three reference fields agree with one another
ReferenceConsistent ==
  /\ reference_type = "none" => (reference_content = <<>> /\ reference_images = <<>>)
  /\ reference_type = "text" => reference_images = <<>>

\* the step is a load_reference_material call that returned False
FailedLoadStep == op'.name = "load_reference_material" /\ result' = PyBool(FALSE)

\* C11: after every load_reference_material call the reference fields are
\* consistent (type "none": no content and no images; type "text": no
\* images), and a failed load leaves the three fields unchanged.
C11_ReferenceFieldsConsistent ==
  [][ReferenceConsistent' /\ (FailedLoadStep => UNCHANGED ref_vars)]_vars

\* C11, the parts that hold: type "none" goes with empty content and images.
C11_NoneMeansEmpty ==
  reference_type = "none" => (reference_content = <<>> /\ reference_images = <<>>)

\* C11, the parts that hold: a failed load changes no reference field.
C11_FailedLoadChangesNothing ==
  [][FailedLoadStep => UNCHANGED ref_vars]_vars

====
